---- MODULE Spec2Model ----
(***************************************************************************)
(* A model of src/multi.rs: the MultiBar row allocator, the MultiBarLine   *)
(* handles, the mpsc channel of WriteMsg and the MultiBarListener that     *)
(* drains it and repaints the terminal.                                    *)
(***************************************************************************)
EXTENDS Naturals, Sequences, FiniteSets

\* ------------------------------------------------------------------ bounds
\* Most lines (levels) ever allocated.
MaxLines == 2
\* Most messages ever enqueued successfully.
MaxMsgs == 3
\* Most LogTargets ever created.
MaxTargets == 1
\* Most bytes a LogTarget's buffer holds, the bytes being written included.
MaxBuf == 3

\* The levels new_level can hand out within MaxLines.
Levels == 0..(MaxLines - 1)

\* The newline byte.
NL == "\n"

\* Row texts: two texts of different length, as sequences of characters.
Texts == { <<"a">>, <<"b", "b">> }
\* Log payloads: the empty payload and a non-empty one.
LogData == { <<>>, <<"L">> }
\* What is written to a LogTarget next to lines and bars: one complete line.
Writes == { <<"L", NL>> }
\* What is written to a LogTarget on its own: parts of lines, a line's end,
\* two newlines, a newline followed by the start of the next line.
LogWrites == { <<"h">>, <<"w", NL>>, <<"p">>, <<NL, NL>>, <<NL, "p">> }

\* Option<T>: None is the empty sequence, Some(x) a sequence of one element.
None == <<>>
Some(x) == <<x>>
IsSome(o) == o # <<>>

VARIABLES
    nlines,          \* SharedState.nlines
    lock,            \* the Mutex of SharedState: "free", or the thread holding it
    mb,              \* the MultiBar and its owner thread: [st, pc, tmp, line]
    bars,            \* every MultiBarLine ever created, in order of creation
    targets,         \* every LogTarget ever created
    chan,            \* the mpsc channel: WriteMsg in flight, oldest first
    lpc,             \* where the MultiBarListener is
    lines,           \* MultiBarListener.lines
    previous_lines,  \* listen's local previous_lines
    term,            \* the terminal behind MultiBarListener.handle
    nrecv,           \* history: how many messages try_recv/recv have returned
    last,            \* history: per level, the last UpdateLine/RemoveLine returned
    removed,         \* history: the levels a returned RemoveLine named
    logged,          \* history: the non-empty Log payloads returned, in order
    sink,            \* history: every write_all to the handle, in order
    sent             \* history: how many sends returned Ok, and per level the last one

\* The history variables: they record what the listener received and steer nothing.
hist == <<nrecv, last, removed, logged, sink, sent>>

\* The history of the listener alone.
lhist == <<nrecv, last, removed, logged, sink>>

vars == <<nlines, lock, mb, bars, targets, chan, lpc, lines, previous_lines, term, hist>>

\* ------------------------------------------------------------- WriteMsg
UpdateLineMsg(level, line) == [kind |-> "UpdateLine", level |-> level, line |-> line]
RemoveLineMsg(level) == [kind |-> "RemoveLine", level |-> level]
LogMsg(data) == [kind |-> "Log", data |-> data]

\* The history of a send that returned Ok.
Sent(m) ==
    sent' = [n |-> sent.n + 1,
             last |-> CASE m.kind = "UpdateLine" -> [sent.last EXCEPT ![m.level] = <<"update", m.line>>]
                        [] m.kind = "RemoveLine" -> [sent.last EXCEPT ![m.level] = <<"remove">>]
                        [] OTHER -> sent.last]

\* ------------------------------------------------------------- terminal
\* The terminal the sink's bytes go to: its rows of characters and the cursor
\* (row from 1, column from 0). The bytes are kept as tokens.
OpUp(n) == [op |-> "up", n |-> n]
OpCr == [op |-> "cr"]
OpNl == [op |-> "nl"]
OpEl == [op |-> "el"]
OpEd == [op |-> "ed"]
OpText(s) == [op |-> "text", s |-> s]

Max(a, b) == IF a >= b THEN a ELSE b

\* Characters written at the cursor overwrite what the row holds there.
PutText(row, c, s) ==
    [k \in 1..Max(Len(row), c + Len(s)) |->
        IF k > c /\ k <= c + Len(s) THEN s[k - c]
        ELSE IF k <= Len(row) THEN row[k] ELSE " "]

TermStep(t, o) ==
    CASE o.op = "up" -> [t EXCEPT !.r = IF t.r > o.n THEN t.r - o.n ELSE 1]
      [] o.op = "cr" -> [t EXCEPT !.c = 0]
      [] o.op = "nl" -> [rows |-> IF t.r = Len(t.rows) THEN Append(t.rows, <<>>) ELSE t.rows,
                         r |-> t.r + 1, c |-> 0]
      [] o.op = "el" -> [t EXCEPT !.rows[t.r] = SubSeq(t.rows[t.r], 1, t.c)]
      [] o.op = "ed" -> [t EXCEPT !.rows = [k \in 1..t.r |->
                                              IF k = t.r THEN SubSeq(t.rows[k], 1, t.c)
                                              ELSE t.rows[k]]]
      [] o.op = "text" -> [t EXCEPT !.rows[t.r] = PutText(t.rows[t.r], t.c, o.s),
                                    !.c = t.c + Len(o.s)]

RECURSIVE TermWrite(_, _)
TermWrite(t, out) ==
    IF out = <<>> THEN t ELSE TermWrite(TermStep(t, Head(out)), Tail(out))

\* tty::move_cursor_up, tty::clear_until_newline, tty::clear_after_cursor
move_cursor_up(n) == OpUp(n)
clear_until_newline == OpEl
clear_after_cursor == OpEd

\* ------------------------------------------------------------- listener
\* Mutant of UpdateLineTable: the table is not resized for a level beyond it.
UpdateLineTableNoResize(ls, level, line) ==
    IF level >= Len(ls) THEN ls ELSE [ls EXCEPT ![level + 1] = Some(line)]

\* Mutant of UpdateLineTable: an update of a slot that is None is ignored.
UpdateLineTableSkipAbsent(ls, level, line) ==
    IF level >= Len(ls)
    THEN [k \in 1..(level + 1) |->
            IF k = level + 1 THEN Some(line) ELSE IF k <= Len(ls) THEN ls[k] ELSE None]
    ELSE IF ~IsSome(ls[level + 1]) THEN ls
    ELSE [ls EXCEPT ![level + 1] = Some(line)]

\* parse_message, UpdateLine: the table after the update.
UpdateLineTable(ls, level, line) ==
    IF level >= Len(ls)
    THEN [k \in 1..(level + 1) |->
            IF k = level + 1 THEN Some(line) ELSE IF k <= Len(ls) THEN ls[k] ELSE None]
    ELSE [ls EXCEPT ![level + 1] = Some(line)]

\* parse_message, UpdateLine: the ParsedMessage it returns.
UpdateLineParsed(ls, level) ==
    IF level >= Len(ls) THEN "Refresh"
    ELSE IF ~IsSome(ls[level + 1]) THEN "Refresh"
    ELSE "Changed"

\* parse_message, RemoveLine: self.lines[level] panics when level is out of bounds.
RemoveLinePanics(ls, level) == level >= Len(ls)

\* Mutant of RemoveLineTable: the slot is left as it is.
RemoveLineTableKeep(ls, level) == ls

\* parse_message, RemoveLine: the table after the removal.
RemoveLineTable(ls, level) == [ls EXCEPT ![level + 1] = None]

\* Mutant of LogTable: a Log message with a payload empties the table.
LogTableCleared(ls, data) == IF data = <<>> THEN ls ELSE <<>>

\* parse_message, Log: the table after a Log message; self.lines is not touched.
LogTable(ls, data) == ls

\* Mutant of LogParsed: a Log message is a log line whatever its payload.
LogParsedAlwaysLog(data) == "Log"

\* parse_message, Log: the ParsedMessage it returns.
LogParsed(data) == IF data = <<>> THEN "NoChanges" ELSE "Log"

\* parse_message: [panic, lines, parsed]
parse_message(ls, msg) ==
    CASE msg.kind = "UpdateLine" ->
            [panic |-> FALSE, lines |-> UpdateLineTable(ls, msg.level, msg.line),
             parsed |-> UpdateLineParsed(ls, msg.level)]
      [] msg.kind = "RemoveLine" ->
            IF RemoveLinePanics(ls, msg.level)
            THEN [panic |-> TRUE, lines |-> ls, parsed |-> "Refresh"]
            ELSE [panic |-> FALSE, lines |-> RemoveLineTable(ls, msg.level),
                  parsed |-> "Refresh"]
      [] msg.kind = "Log" ->
            [panic |-> FALSE, lines |-> LogTable(ls, msg.data), parsed |-> LogParsed(msg.data)]

\* redraw: the rows part of out.
RECURSIVE RowsOut(_)
RowsOut(ls) ==
    IF ls = <<>> THEN <<>>
    ELSE (IF IsSome(Head(ls))
          THEN <<OpCr, OpText(Head(ls)[1]), clear_until_newline, OpNl>>
          ELSE <<>>) \o RowsOut(Tail(ls))

\* Mutant of CurrentLines: every slot is counted, present or not.
CurrentLinesAllSlots(ls) == Len(ls)

\* redraw: current_lines, the rows written.
RECURSIVE CurrentLines(_)
CurrentLines(ls) ==
    IF ls = <<>> THEN 0
    ELSE (IF IsSome(Head(ls)) THEN 1 ELSE 0) + CurrentLines(Tail(ls))

\* redraw: the bytes written to the sink.
RedrawOut(prev, log_data, ls) ==
    (IF prev > 0 THEN <<move_cursor_up(prev)>> ELSE <<>>)
    \o (IF IsSome(log_data)
        THEN <<OpCr, clear_after_cursor, OpText(log_data[1]), OpNl>>
        ELSE <<>>)
    \o RowsOut(ls)

\* ------------------------------------------------------------- senders
BarHasSender(b) == b.st = "alive" /\ b.send
\* Whether any Sender of the channel is left.
NoSenders ==
    /\ mb.st # "alive"
    /\ \A i \in DOMAIN bars : ~BarHasSender(bars[i])
    /\ \A i \in DOMAIN targets : targets[i].st # "alive"

\* Whether the Receiver is still there: it goes with the listener.
RecvAlive == lpc \in {"init", "warmup", "steady"}

\* Messages enqueued so far, and those the running calls will still enqueue.
Enqueued == nrecv + Len(chan)
Reserved == IF mb.pc \in {"locked", "update"} THEN 1 ELSE 0
MayEnqueue == Enqueued + Reserved < MaxMsgs

\* ------------------------------------------------------------- Init
Init ==
    /\ nlines = 0
    /\ lock = "free"
    /\ mb = [st |-> "alive", pc |-> "idle", tmp |-> 0, line |-> 0]
    /\ bars = <<>>
    /\ targets = <<>>
    /\ chan = <<>>
    /\ lpc = "init"
    /\ lines = <<>>
    /\ previous_lines = 0
    /\ term = [rows |-> << <<>> >>, r |-> 1, c |-> 0]
    /\ nrecv = 0
    /\ last = [l \in Levels |-> <<"none">>]
    /\ removed = {}
    /\ logged = <<>>
    /\ sink = <<>>
    /\ sent = [n |-> 0, last |-> [l \in Levels |-> <<"none">>]]

\* ------------------------------------------------------------- row allocator
\* Mutant of LockFree: new_level runs without mutual exclusion.
LockNeverHeld(l) == TRUE

\* self.shared.lock(): the Mutex is taken only when no thread holds it.
LockFree(l) == l = "free"

\* A new MultiBarLine. st, pc and tmp are its owner's: whether the handle is
\* alive, dropped or its thread panicked, and where a running new_line is;
\* fin records that finish was called on it.
NewBar(level, send) ==
    [level |-> level, send |-> send, st |-> "alive", pc |-> "idle", tmp |-> 0, fin |-> FALSE]

\* A MultiBarLine the MultiBar's thread has created and not yet handed out.
HeldByMb(i) == mb.pc = "update" /\ mb.line = i

\* MultiBar::new_line, first half: lock the shared state, new_level reads nlines.
MBNewLineLock ==
    /\ mb.st = "alive" /\ mb.pc = "idle"
    /\ nlines < MaxLines
    /\ Enqueued < MaxMsgs
    /\ LockFree(lock)
    /\ lock' = "mb"
    /\ mb' = [mb EXCEPT !.pc = "locked", !.tmp = nlines]
    /\ UNCHANGED <<nlines, bars, targets, chan, lpc, lines, previous_lines, term, hist>>

\* MultiBar::new_line, second half: new_level stores nlines + 1, the guard is
\* released and the MultiBarLine is built with a clone of the sender.
MBNewLineDone ==
    /\ mb.pc = "locked"
    /\ nlines' = mb.tmp + 1
    /\ lock' = "free"
    /\ bars' = Append(bars, NewBar(mb.tmp, TRUE))
    /\ mb' = [mb EXCEPT !.pc = "update", !.tmp = 0, !.line = Len(bars) + 1]
    /\ UNCHANGED <<targets, chan, lpc, lines, previous_lines, term, hist>>

\* MultiBarLine::send: what self.send.as_mut().unwrap().send(m).unwrap() does.
\*   "none"   the handle holds no sender: unwrap of None panics
\*   "closed" the receiver is gone: send returns Err and unwrap panics
\*   "ok"     the message is enqueued
SendOutcome(b) ==
    IF ~b.send THEN "none" ELSE IF ~RecvAlive THEN "closed" ELSE "ok"

PanicState(outcome) == IF outcome = "none" THEN "panicNone" ELSE "panicSend"

\* MultiBar::println / MultiBar::create_bar, after new_line: the new line's first
\* update_line (println's text, or the bar's first frame drawn by tick). When
\* it panics, the MultiBar's thread unwinds and drops the line it was building.
MBFirstUpdate(text) ==
    /\ mb.pc = "update"
    /\ LET i == mb.line
           o == SendOutcome(bars[i])
       IN  IF o = "ok"
           THEN /\ chan' = Append(chan, UpdateLineMsg(bars[i].level, text))
                /\ Sent(UpdateLineMsg(bars[i].level, text))
                /\ mb' = [mb EXCEPT !.pc = "idle", !.line = 0]
                /\ bars' = bars
           ELSE /\ chan' = chan
                /\ sent' = sent
                /\ mb' = [mb EXCEPT !.pc = "idle", !.line = 0, !.st = "panicked"]
                /\ bars' = [bars EXCEPT ![i].st = "dropped", ![i].send = FALSE]
    /\ UNCHANGED <<nlines, lock, targets, lpc, lines, previous_lines, term, lhist>>

\* What write and flush return: Ok(n), Ok(()) or Err.
Ok(n) == <<"Ok", n>>
Err == <<"Err">>

\* A new LogTarget: an empty buffer and a clone of the sender. call and ret
\* record its owner's last call and what it returned, tick flips with every call.
NewTarget ==
    [st |-> "alive", buf |-> <<>>, call |-> <<"none">>, ret |-> <<"none">>, tick |-> FALSE]

\* MultiBar::create_log_target
MBCreateLogTarget ==
    /\ mb.st = "alive" /\ mb.pc = "idle"
    /\ Len(targets) < MaxTargets
    /\ targets' = Append(targets, NewTarget)
    /\ UNCHANGED <<nlines, lock, mb, bars, chan, lpc, lines, previous_lines, term, hist>>

\* drop(mb): the MultiBar's sender is released.
MBDrop ==
    /\ mb.st = "alive" /\ mb.pc = "idle"
    /\ mb' = [mb EXCEPT !.st = "dropped"]
    /\ UNCHANGED <<nlines, lock, bars, targets, chan, lpc, lines, previous_lines, term, hist>>

\* ------------------------------------------------------------- MultiBarLine
\* A handle its owner can call: not dropped, its thread not panicked, not
\* inside new_line and already handed out by the MultiBar.
Callable(i) ==
    /\ i \in DOMAIN bars
    /\ bars[i].st = "alive" /\ bars[i].pc = "idle"
    /\ ~HeldByMb(i)

\* MultiBarLine::send with message m on handle i.
BarSend(i, m) ==
    /\ Callable(i)
    /\ LET o == SendOutcome(bars[i])
       IN  IF o = "ok"
           THEN /\ MayEnqueue
                /\ chan' = Append(chan, m)
                /\ Sent(m)
                /\ bars' = bars
           ELSE /\ chan' = chan
                /\ sent' = sent
                /\ bars' = [bars EXCEPT ![i].st = PanicState(o), ![i].send = FALSE]
    /\ UNCHANGED <<nlines, lock, mb, targets, lpc, lines, previous_lines, term, lhist>>

\* MultiBarLine::update_line
BarUpdateLine(i, text) == BarSend(i, UpdateLineMsg(bars[i].level, text))

\* MultiBarLine::remove_line
BarRemoveLine(i) == BarSend(i, RemoveLineMsg(bars[i].level))

\* MultiBarLine::log
BarLog(i, data) == BarSend(i, LogMsg(data))

\* MultiBarLine::finish: self.send.take()
BarFinish(i) ==
    /\ Callable(i)
    /\ bars' = [bars EXCEPT ![i].send = FALSE, ![i].fin = TRUE]
    /\ UNCHANGED <<nlines, lock, mb, targets, chan, lpc, lines, previous_lines, term, hist>>

\* drop of a MultiBarLine: its sender, if it holds one, is released.
BarDrop(i) ==
    /\ Callable(i)
    /\ bars' = [bars EXCEPT ![i].st = "dropped", ![i].send = FALSE]
    /\ UNCHANGED <<nlines, lock, mb, targets, chan, lpc, lines, previous_lines, term, hist>>

\* MultiBarLine::new_line, first half: lock, new_level reads nlines.
BarNewLineLock(i) ==
    /\ Callable(i)
    /\ nlines < MaxLines
    /\ LockFree(lock)
    /\ lock' = "bar"
    /\ bars' = [bars EXCEPT ![i].pc = "locked", ![i].tmp = nlines]
    /\ UNCHANGED <<nlines, mb, targets, chan, lpc, lines, previous_lines, term, hist>>

\* Mutant of ChildSend: the child always gets a sender.
ChildSendAlways(parent) == TRUE

\* MultiBarLine::new_line, send: self.send.clone(): Some exactly when the
\* parent holds a sender.
ChildSend(parent) == parent.send

\* MultiBarLine::new_line, second half: the child gets self.send.clone(), which
\* is None when the parent was finished.
BarNewLineDone(i) ==
    /\ i \in DOMAIN bars
    /\ bars[i].pc = "locked"
    /\ nlines' = bars[i].tmp + 1
    /\ lock' = "free"
    /\ bars' = Append([bars EXCEPT ![i].pc = "idle", ![i].tmp = 0],
                      NewBar(bars[i].tmp, ChildSend(bars[i])))
    /\ UNCHANGED <<mb, targets, chan, lpc, lines, previous_lines, term, hist>>

\* ------------------------------------------------------------- LogTarget
\* Mutant of LastNewline: the scan runs forward and stops at the first newline.
RECURSIVE FirstNewlineFrom(_, _)
FirstNewlineFrom(b, k) ==
    IF k > Len(b) THEN 0
    ELSE IF b[k] = NL THEN k
    ELSE FirstNewlineFrom(b, k + 1)

FirstNewline(b, n) == FirstNewlineFrom(b, 1)

\* LogTarget::write, for pos in (0..self.buf.len()).rev(): the scan from the
\* n-th byte backwards; the place (from 1) of the newline it stops at, 0 when
\* it finds none.
RECURSIVE LastNewline(_, _)
LastNewline(b, n) ==
    IF n = 0 THEN 0
    ELSE IF b[n] = NL THEN n
    ELSE LastNewline(b, n - 1)

\* LogTarget::write: the message sent, the buffer with the newline at place k
\* split off and truncated.
WriteMsgData(b, k) == SubSeq(b, 1, k - 1)

\* LogTarget::write: the remainder kept in self.buf.
WriteRem(b, k) == SubSeq(b, k + 1, Len(b))

\* Mutant of WriteRet: write returns Ok(buf.len()) whatever send returns.
WriteRetAlwaysOk(data, sends, open) == Ok(Len(data))

\* LogTarget::write: an Err of send is returned by ?; otherwise Ok(buf.len()).
WriteRet(data, sends, open) == IF sends /\ ~open THEN Err ELSE Ok(Len(data))

\* LogTarget::write: the bytes are appended to the buffer; when the buffer
\* holds a newline, what is before the last one is sent as one Log message
\* and what is after it is kept.
TargetWrite(j, data) ==
    /\ j \in DOMAIN targets
    /\ targets[j].st = "alive"
    /\ LET b == targets[j].buf \o data
           k == LastNewline(b, Len(b))
       IN  /\ Len(b) <= MaxBuf
           /\ targets' = [targets EXCEPT ![j].buf = IF k > 0 THEN WriteRem(b, k) ELSE b,
                                         ![j].call = <<"write", data>>,
                                         ![j].tick = ~@,
                                         ![j].ret = WriteRet(data, k > 0, RecvAlive)]
           /\ IF k > 0 /\ RecvAlive
              THEN /\ MayEnqueue
                   /\ chan' = Append(chan, LogMsg(WriteMsgData(b, k)))
                   /\ Sent(LogMsg(WriteMsgData(b, k)))
              ELSE chan' = chan /\ sent' = sent
    /\ UNCHANGED <<nlines, lock, mb, bars, lpc, lines, previous_lines, term, lhist>>

\* LogTarget::flush: the buffer is forwarded as one Log message and emptied; a
\* closed channel makes it return Err.
TargetFlush(j) ==
    /\ j \in DOMAIN targets
    /\ targets[j].st = "alive"
    /\ targets' = [targets EXCEPT ![j].buf = <<>>,
                                  ![j].call = <<"flush">>,
                                  ![j].tick = ~@,
                                  ![j].ret = IF RecvAlive THEN Ok(0) ELSE Err]
    /\ IF RecvAlive
       THEN /\ MayEnqueue
            /\ chan' = Append(chan, LogMsg(targets[j].buf))
            /\ Sent(LogMsg(targets[j].buf))
       ELSE chan' = chan /\ sent' = sent
    /\ UNCHANGED <<nlines, lock, mb, bars, lpc, lines, previous_lines, term, lhist>>

\* drop of a LogTarget: its sender is released.
TargetDrop(j) ==
    /\ j \in DOMAIN targets
    /\ targets[j].st = "alive"
    /\ targets' = [targets EXCEPT ![j].st = "dropped"]
    /\ UNCHANGED <<nlines, lock, mb, bars, chan, lpc, lines, previous_lines, term, hist>>

\* ------------------------------------------------------------- MultiBarListener
\* One write_all to the handle: by the warm-up loop (a Log payload) or by redraw.
WarmupWrite(data) == [by |-> "warmup", out |-> <<OpText(data)>>]
RedrawWrite(out) == [by |-> "redraw", out |-> out]

\* listen is called: previous_lines = 0, the warm-up loop starts.
ListenStart ==
    /\ lpc = "init"
    /\ lpc' = "warmup"
    /\ previous_lines' = 0
    /\ UNCHANGED <<nlines, lock, mb, bars, targets, chan, lines, term, hist>>

\* The MultiBarListener is dropped without listen being called.
ListenerDrop ==
    /\ lpc = "init"
    /\ lpc' = "dropped"
    /\ chan' = <<>>
    /\ UNCHANGED <<nlines, lock, mb, bars, targets, lines, previous_lines, term, hist>>

\* Mutant of TryRecvFails: the warm-up loop breaks before the queue is drained.
TryRecvAlwaysFails == TRUE

\* try_recv returns Err: nothing is queued (senders left or not).
TryRecvFails == chan = <<>>

\* Mutant of RecvFails: recv fails as soon as nothing is queued, like try_recv.
RecvFailsWhenEmpty == chan = <<>>

\* Mutant of RecvFails: recv fails when no sender is left, queued messages or not.
RecvFailsNoSenders == NoSenders

\* recv returns Err: nothing is queued and no sender is left. With a sender
\* left and nothing queued it blocks.
RecvFails == chan = <<>> /\ NoSenders

\* The history of a message try_recv or recv returns.
Received(msg) ==
    /\ nrecv' = nrecv + 1
    /\ last' = CASE msg.kind = "UpdateLine" -> [last EXCEPT ![msg.level] = <<"update", msg.line>>]
                  [] msg.kind = "RemoveLine" -> [last EXCEPT ![msg.level] = <<"remove">>]
                  [] OTHER -> last
    /\ removed' = IF msg.kind = "RemoveLine" THEN removed \cup {msg.level} ELSE removed
    /\ logged' = IF msg.kind = "Log" /\ msg.data # <<>> THEN Append(logged, msg.data) ELSE logged
    /\ sent' = sent

\* Warm-up: try_recv returns a message; it is parsed, a Log payload is written
\* to the sink as it is, and nothing is redrawn.
WarmupRecv ==
    /\ lpc = "warmup"
    /\ chan # <<>>
    /\ LET msg == Head(chan)
           p == parse_message(lines, msg)
       IN  /\ Received(msg)
           /\ IF p.panic
              THEN lpc' = "panicked" /\ chan' = <<>> /\ UNCHANGED <<lines, term, sink>>
              ELSE /\ lpc' = lpc
                   /\ chan' = Tail(chan)
                   /\ lines' = p.lines
                   /\ IF p.parsed = "Log"
                      THEN /\ term' = TermWrite(term, WarmupWrite(msg.data).out)
                           /\ sink' = Append(sink, WarmupWrite(msg.data))
                      ELSE UNCHANGED <<term, sink>>
    /\ UNCHANGED <<nlines, lock, mb, bars, targets, previous_lines>>

\* Warm-up ends: try_recv returns Err, the loop breaks, and the initial draw
\* is made.
WarmupDone ==
    /\ lpc = "warmup"
    /\ TryRecvFails
    /\ term' = TermWrite(term, RedrawOut(previous_lines, None, lines))
    /\ sink' = Append(sink, RedrawWrite(RedrawOut(previous_lines, None, lines)))
    /\ previous_lines' = CurrentLines(lines)
    /\ lpc' = "steady"
    /\ UNCHANGED <<nlines, lock, mb, bars, targets, chan, lines, nrecv, last, removed, logged, sent>>

\* Steady loop: recv returns a message; it is parsed and, unless it is
\* NoChanges, everything is redrawn.
SteadyRecv ==
    /\ lpc = "steady"
    /\ chan # <<>>
    /\ LET msg == Head(chan)
           p == parse_message(lines, msg)
           log_line == IF p.parsed = "Log" THEN Some(msg.data) ELSE None
       IN  /\ Received(msg)
           /\ IF p.panic
              THEN lpc' = "panicked" /\ chan' = <<>> /\ UNCHANGED <<lines, term, previous_lines, sink>>
              ELSE /\ lpc' = lpc
                   /\ chan' = Tail(chan)
                   /\ lines' = p.lines
                   /\ IF p.parsed = "NoChanges"
                      THEN UNCHANGED <<term, previous_lines, sink>>
                      ELSE /\ term' = TermWrite(term, RedrawOut(previous_lines, log_line, p.lines))
                           /\ sink' = Append(sink, RedrawWrite(RedrawOut(previous_lines, log_line, p.lines)))
                           /\ previous_lines' = CurrentLines(p.lines)
    /\ UNCHANGED <<nlines, lock, mb, bars, targets>>

\* Steady loop: recv returns Err and listen returns.
SteadyReturn ==
    /\ lpc = "steady"
    /\ RecvFails
    /\ lpc' = "done"
    /\ UNCHANGED <<nlines, lock, mb, bars, targets, chan, lines, previous_lines, term, hist>>

\* The steps of the thread that runs listen.
ListenerNext == ListenStart \/ WarmupRecv \/ WarmupDone \/ SteadyRecv \/ SteadyReturn

Next ==
    \/ MBNewLineLock
    \/ MBNewLineDone
    \/ \E text \in Texts : MBFirstUpdate(text)
    \/ MBCreateLogTarget
    \/ MBDrop
    \/ \E i \in DOMAIN bars : \E text \in Texts : BarUpdateLine(i, text)
    \/ \E i \in DOMAIN bars : BarRemoveLine(i)
    \/ \E i \in DOMAIN bars : \E data \in LogData : BarLog(i, data)
    \/ \E i \in DOMAIN bars : BarFinish(i)
    \/ \E i \in DOMAIN bars : BarDrop(i)
    \/ \E i \in DOMAIN bars : BarNewLineLock(i)
    \/ \E i \in DOMAIN bars : BarNewLineDone(i)
    \/ \E j \in DOMAIN targets : \E data \in Writes : TargetWrite(j, data)
    \/ \E j \in DOMAIN targets : TargetFlush(j)
    \/ \E j \in DOMAIN targets : TargetDrop(j)
    \/ ListenerDrop
    \/ ListenerNext

Spec == Init /\ [][Next]_vars

\* A LogTarget on its own: it is created, written to with parts of lines and
\* flushed while nothing is taken from the channel, so that chan holds every
\* message it forwarded; the listener may be dropped, which closes the channel.
LogNext ==
    \/ MBCreateLogTarget
    \/ \E j \in DOMAIN targets : \E data \in LogWrites : TargetWrite(j, data)
    \/ \E j \in DOMAIN targets : TargetFlush(j)
    \/ \E j \in DOMAIN targets : TargetDrop(j)
    \/ ListenerDrop

LogSpec == Init /\ [][LogNext]_vars

\* ============================================================= claims
\* The slot of a level in a row table: None when the table has no such slot.
SlotAt(ls, l) == IF l < Len(ls) THEN ls[l + 1] ELSE None

\* What the history says a level shows: the text of its last UpdateLine when
\* that is its last UpdateLine/RemoveLine message, nothing otherwise.
ExpectedSlot(l) == IF last[l][1] = "update" THEN Some(last[l][2]) ELSE None

\* The present slots of a table, counted without walking it as redraw does.
NumPresent(ls) == Cardinality({k \in 1..Len(ls) : IsSome(ls[k])})

\* C1: after any sequence of messages the listener has taken from the channel,
\* the row table holds Some(text) at exactly the levels whose last
\* UpdateLine/RemoveLine message was an UpdateLine, with that update's text, and
\* None or no slot at every other level.
C1_RowTableMatchesLastMessage ==
    /\ Len(lines) <= MaxLines
    /\ \A l \in Levels : SlotAt(lines, l) = ExpectedSlot(l)

\* C1 witness: three messages taken, one level's last message a removal and
\* another level's last message an update.
C1_Witness ==
    /\ nrecv >= 3
    /\ \E l1, l2 \in Levels : last[l1] = <<"remove">> /\ last[l2][1] = "update"

\* Whether the thread that runs listen can take a step: listen can be called,
\* the warm-up loop never blocks, and recv returns when a message is queued or
\* no sender is left.
ListenerCanStep ==
    \/ lpc \in {"init", "warmup"}
    \/ lpc = "steady" /\ (chan # <<>> \/ RecvFails)

\* C2: once every sender is released, listen has returned or the listener's
\* thread can take a further step towards returning: it never ends otherwise.
C2_ListenReturnsOnceSendersReleased ==
    (NoSenders /\ lpc # "dropped") => (lpc = "done" \/ ListenerCanStep)

\* C3: listen has returned only when no sender remains: the MultiBar is dropped,
\* every MultiBarLine is finished or dropped and every LogTarget is dropped.
C3_DoneOnlyWithoutSenders ==
    lpc = "done" => NoSenders

\* C3 witness: listen has returned after receiving messages, with a line that
\* was finished but not dropped and a LogTarget that was dropped.
C3_Witness ==
    /\ lpc = "done"
    /\ nrecv >= 2
    /\ \E i \in DOMAIN bars : bars[i].st = "alive" /\ ~bars[i].send
    /\ \E j \in DOMAIN targets : targets[j].st = "dropped"

Repainted == lpc \in {"steady", "done"}

\* The texts of the present rows of a table, in level order.
RECURSIVE PresentTexts(_)
PresentTexts(ls) ==
    IF ls = <<>> THEN <<>>
    ELSE (IF IsSome(Head(ls)) THEN <<Head(ls)[1]>> ELSE <<>>) \o PresentTexts(Tail(ls))

\* C5: after a repaint the terminal shows, from the top of the frame down,
\* exactly the present rows in level order and nothing below them. Stated for
\* runs without log output, where nothing but frames is written.
C5_FrameShowsExactlyPresentRows ==
    (Repainted /\ logged = <<>>) =>
        LET rows == PresentTexts(lines)
            top == term.r - Len(rows)
        IN  /\ top >= 1
            /\ \A k \in 1..Len(rows) : term.rows[top + k - 1] = rows[k]
            /\ \A k \in (top + Len(rows))..Len(term.rows) : term.rows[k] = <<>>

\* C6: update_line, remove_line and log on a handle that holds its sender never
\* panic when the receiver is gone: the message is dropped silently.
C6_SendOnClosedChannelIsSilent ==
    \A i \in DOMAIN bars : bars[i].st # "panicSend"

\* C7: update_line, remove_line and log on a handle whose finish was called
\* return without failing.
C7_FinishedHandleIsInert ==
    \A i \in DOMAIN bars : bars[i].fin => bars[i].st # "panicNone"

\* C8 as claimed: once a RemoveLine of a level was received, the row of that
\* level stays absent whatever update_line calls follow on the handle.
C8_RemovedRowStaysAbsent ==
    \A l \in removed : ~IsSome(SlotAt(lines, l))

\* C8 amended: once a RemoveLine of a level was received, the row is absent
\* exactly as long as no UpdateLine of that level is received after it; a later
\* update_line on the handle shows the row again.
C8_RemovedRowAbsentUntilUpdated ==
    \A l \in removed : ~IsSome(SlotAt(lines, l)) <=> last[l] = <<"remove">>

\* C8 witness: a level that was removed is present again in a frame that was
\* drawn.
C8_Witness ==
    /\ Repainted
    /\ previous_lines >= 1
    /\ \E l \in removed : IsSome(SlotAt(lines, l))

\* C9, one step: a received RemoveLine leaves the slot of its level absent, a
\* received UpdateLine leaves it present with the new text (also when the slot
\* was removed before), every handle keeps its level and a new handle gets a
\* level no handle has.
C9_Step ==
    /\ nrecv' = nrecv + 1 =>
          LET msg == Head(chan)
          IN  /\ msg.kind = "RemoveLine" => ~IsSome(SlotAt(lines', msg.level))
              /\ msg.kind = "UpdateLine" => SlotAt(lines', msg.level) = Some(msg.line)
    /\ \A i \in DOMAIN bars : i \in DOMAIN bars' /\ bars'[i].level = bars[i].level
    /\ \A j \in DOMAIN bars' \ DOMAIN bars :
          \A i \in DOMAIN bars : bars'[j].level # bars[i].level

\* C9: a RemoveLine of a level followed by an UpdateLine of the same level
\* makes the slot absent and then present again with the new text, and the
\* level stays bound to the one handle it was created for.
C9_RemoveThenUpdateShowsRowAgain == [][C9_Step]_vars

\* C9 witness: in the steady loop, a level that was removed holds the text of
\* an update received after the removal, and its handle still has the level.
C9_Witness ==
    /\ lpc = "steady"
    /\ \E i \in DOMAIN bars :
          /\ bars[i].level \in removed
          /\ last[bars[i].level] = <<"update", <<"b", "b">>>>
          /\ SlotAt(lines, bars[i].level) = Some(<<"b", "b">>)

\* C10: the rows a repaint writes, and the count kept as previous_lines, are
\* the present slots of the table: absent slots and the log line add nothing.
C10_RowsWrittenArePresentSlots ==
    Repainted =>
        LET out == RowsOut(lines)
        IN  /\ previous_lines = NumPresent(lines)
            /\ Cardinality({k \in 1..Len(out) : out[k] = OpNl}) = NumPresent(lines)

\* C10 witness: a frame of one row was drawn from a table of two slots, one of
\* them absent.
C10_Witness ==
    /\ Repainted
    /\ Len(lines) = 2
    /\ previous_lines = 1
    /\ \E k \in 1..2 : ~IsSome(lines[k])

\* A step in which try_recv or recv returns a message of the given kind.
Receives(kind) == nrecv' = nrecv + 1 /\ Head(chan).kind = kind

\* C11, one step: when the message returned is a Log message, with or without
\* payload, the table after the step is the table before it.
C11_Step == Receives("Log") => lines' = lines

\* C11: handling a Log message, in warm-up or in the steady loop, leaves the
\* row table as it is: its length and the text or absence of every level.
C11_LogLeavesTableUnchanged == [][C11_Step]_vars

\* C11 witness: Log messages with a payload were handled in warm-up and in the
\* steady loop after the table was filled, and the table still holds a row.
C11_Witness ==
    /\ \E k \in DOMAIN sink : sink[k].by = "warmup"
    /\ Len(sink) >= 3
    /\ sink[Len(sink)].by = "redraw"
    /\ \E k \in DOMAIN sink[Len(sink)].out : sink[Len(sink)].out[k] = OpText(<<"L">>)
    /\ \E l \in Levels : IsSome(SlotAt(lines, l))

\* Whether a byte string holds a newline.
HasNewline(b) == \E k \in DOMAIN b : b[k] = NL

\* A step in which write or flush is called on LogTarget j.
TargetCalled(j) == j \in DOMAIN targets' /\ targets'[j].tick # targets[j].tick

\* C12, one step on an open channel: a write whose accumulated buffer holds a
\* newline forwards one Log message with the bytes before the last newline and
\* keeps the bytes after it; a write without newline forwards nothing and
\* keeps everything; a flush forwards the buffer and empties it.
C12_Step ==
    \A j \in DOMAIN targets :
        (TargetCalled(j) /\ RecvAlive) =>
            LET c == targets'[j].call
                b == targets[j].buf
            IN  CASE c[1] = "write" ->
                        LET acc == b \o c[2]
                        IN  IF HasNewline(acc)
                            THEN \E k \in DOMAIN acc :
                                    /\ acc[k] = NL
                                    /\ \A m \in (k + 1)..Len(acc) : acc[m] # NL
                                    /\ chan' = Append(chan, LogMsg(SubSeq(acc, 1, k - 1)))
                                    /\ targets'[j].buf = SubSeq(acc, k + 1, Len(acc))
                            ELSE chan' = chan /\ targets'[j].buf = acc
                  [] c[1] = "flush" ->
                        chan' = Append(chan, LogMsg(b)) /\ targets'[j].buf = <<>>
                  [] OTHER -> FALSE

\* C12: every write and flush of a LogTarget on an open channel forwards and
\* keeps what the line split says: the bytes before the last newline are
\* forwarded as one message, the bytes after it are kept, a flush forwards
\* whatever is buffered.
C12_WriteSplitsAtLastNewline == [][C12_Step]_vars

\* C12 witness: the writes "hello ", "world\n", "partial" (the bytes h, w, p)
\* and a flush have forwarded the two messages "hello world" and "partial".
C12_Witness ==
    /\ chan = <<LogMsg(<<"h", "w">>), LogMsg(<<"p">>)>>
    /\ \E j \in DOMAIN targets : targets[j].call = <<"flush">> /\ targets[j].buf = <<>>

\* C13 as claimed: every write returns Ok with the full length of its input,
\* whatever the state of the buffer and of the channel.
C13_WriteAlwaysReportsFullLength ==
    \A j \in DOMAIN targets :
        targets[j].call[1] = "write" => targets[j].ret = Ok(Len(targets[j].call[2]))

\* C13 amended, one step: a write returns Ok with the full length of its input
\* unless it has a message to forward and the receiver is gone; it then returns
\* Err, the message is lost and the bytes after the last newline stay buffered.
C13_Step ==
    \A j \in DOMAIN targets :
        (TargetCalled(j) /\ targets'[j].call[1] = "write") =>
            LET data == targets'[j].call[2]
                acc == targets[j].buf \o data
            IN  IF HasNewline(acc) /\ ~RecvAlive
                THEN /\ targets'[j].ret = Err
                     /\ chan' = chan
                     /\ ~HasNewline(targets'[j].buf)
                ELSE targets'[j].ret = Ok(Len(data))

\* C13 amended: write reports the full length while the channel is open or
\* nothing has to be forwarded, and an error when it has to forward a message
\* after the listener is gone.
C13_WriteReportsFullLengthUnlessSendFails == [][C13_Step]_vars

\* C13 witness: after the listener was dropped, a write that only buffers
\* returned Ok and left its bytes in the buffer, or a write with a newline
\* returned Err; the state shown is the second.
C13_Witness ==
    /\ lpc = "dropped"
    /\ \E j \in DOMAIN targets :
          /\ targets[j].call = <<"write", <<NL, "p">>>>
          /\ targets[j].ret = Err
          /\ targets[j].buf = <<"p">>

\* C14: no Log message a LogTarget forwarded ends with a newline.
C14_NoForwardedMessageEndsWithNewline ==
    \A k \in DOMAIN chan :
        chan[k].kind = "Log" =>
            LET d == chan[k].data
            IN  d = <<>> \/ d[Len(d)] # NL

\* C15: the listener never fails on a message: an UpdateLine or RemoveLine of
\* a level at or beyond the length of the table grows the table, and listen
\* goes on.
C15_ListenerNeverFailsOnMessage == lpc # "panicked"

\* The bytes of a frame that shows the given texts, one row each.
RECURSIVE FrameOf(_)
FrameOf(texts) ==
    IF texts = <<>> THEN <<>>
    ELSE <<OpCr, OpText(Head(texts)), OpEl, OpNl>> \o FrameOf(Tail(texts))

\* Whether a write to the sink is a repaint.
IsRedraw(w) == w.by = "redraw"

\* C16, one step: a message taken in warm-up is applied to the table and
\* nothing is written but the payload of a Log message, as it is; warm-up ends
\* only when nothing is queued, with the first repaint, which shows the rows
\* of the table the warm-up messages left.
C16_Step ==
    /\ (lpc = "warmup" /\ nrecv' = nrecv + 1) =>
          LET msg == Head(chan)
          IN  /\ sink' = IF msg.kind = "Log" /\ msg.data # <<>>
                         THEN Append(sink, [by |-> "warmup", out |-> <<OpText(msg.data)>>])
                         ELSE sink
              /\ \A l \in Levels :
                    SlotAt(lines', l) =
                        (IF last'[l][1] = "update" THEN Some(last'[l][2]) ELSE None)
    /\ (lpc = "warmup" /\ lpc' = "steady") =>
          /\ chan = <<>>
          /\ \A k \in DOMAIN sink : ~IsRedraw(sink[k])
          /\ sink' = Append(sink, [by |-> "redraw", out |-> FrameOf(PresentTexts(lines))])
          /\ lines' = lines
    /\ lpc' = "warmup" => \A k \in DOMAIN sink' : ~IsRedraw(sink'[k])

\* C16: during warm-up the listener repaints after no message: the queued
\* messages are applied to the table, Log payloads are written in queue order,
\* and the one repaint comes when try_recv finds nothing, before the first
\* recv, showing the table of all warm-up messages.
C16_WarmupDefersToOneRedraw == [][C16_Step]_vars

\* C16 witness: three messages were taken in warm-up, two rows and a Log
\* payload; the payload was written and then one repaint was made.
C16_Witness ==
    /\ lpc = "steady"
    /\ nrecv = 3
    /\ Len(lines) = 2 /\ IsSome(lines[1]) /\ IsSome(lines[2])
    /\ Len(sink) = 2
    /\ sink[1].by = "warmup"
    /\ IsRedraw(sink[2])

\* C17: every Log payload written to the sink is a line of its own: it is
\* written from column zero after the rest of the screen was cleared and is
\* followed by a newline before anything else is written.
C17_LogPayloadIsLineOfItsOwn ==
    \A k \in DOMAIN sink :
        LET out == sink[k].out
        IN  \A m \in DOMAIN out :
                (out[m].op = "text" /\ out[m].s \in LogData) =>
                    /\ m > 2 /\ out[m - 2] = OpCr /\ out[m - 1] = OpEd
                    /\ m < Len(out) /\ out[m + 1] = OpNl

\* C18, one step: a message the steady loop has handled, going on to its next
\* recv, caused no write at all when it is a Log message without payload, and
\* otherwise one repaint: the cursor goes up over the rows of the frame before,
\* a Log payload is written as a line, and every present row of the table is
\* written, whether the message changed a present row or the set of rows.
C18_Step ==
    (lpc = "steady" /\ lpc' = "steady" /\ nrecv' = nrecv + 1) =>
        LET msg == Head(chan)
        IN  IF msg.kind = "Log" /\ msg.data = <<>>
            THEN sink' = sink /\ term' = term /\ previous_lines' = previous_lines
            ELSE sink' = Append(sink,
                    [by |-> "redraw",
                     out |-> (IF previous_lines > 0 THEN <<OpUp(previous_lines)>> ELSE <<>>)
                             \o (IF msg.kind = "Log"
                                 THEN <<OpCr, OpEd, OpText(msg.data), OpNl>>
                                 ELSE <<>>)
                             \o FrameOf(PresentTexts(lines'))])

C19_NoFinalFrameMissed ==
    lpc = "done" =>
        /\ chan = <<>>
        /\ nrecv = sent.n
        /\ \A l \in Levels :
              SlotAt(lines, l) =
                  (IF sent.last[l][1] = "update" THEN Some(sent.last[l][2]) ELSE None)
        /\ sink # <<>>
        /\ LET w == sink[Len(sink)]
               f == FrameOf(PresentTexts(lines))
               n == Len(w.out) - Len(f)
           IN  /\ IsRedraw(w)
               /\ n >= 0
               /\ SubSeq(w.out, n + 1, Len(w.out)) = f
               /\ \A k \in 1..n : w.out[k].op = "text" => w.out[k].s \in LogData

\* C19 witness: listen has returned after three messages of two handles, an
\* update and a removal of the first row and an update of the second; the
\* last frame shows the second row alone.
C19_Witness ==
    /\ lpc = "done"
    /\ sent.n = 3
    /\ sent.last[0] = <<"remove">>
    /\ sent.last[1] = <<"update", <<"b", "b">>>>
    /\ lines = <<None, Some(<<"b", "b">>)>>

\* C20, one step: a line built by MultiBarLine::new_line gets a level no line
\* has and holds a sender exactly when its parent holds one, so none when the
\* parent was finished; a handle without sender never gets one and enqueues
\* nothing when a send is tried on it; a handle loses its sender only in a
\* step of its own, whatever happens to its parent or child; and listen does
\* not return while a handle holds a sender.
C20_Step ==
    /\ \A j \in DOMAIN bars' \ DOMAIN bars :
          \A i \in DOMAIN bars :
              bars[i].pc = "locked" =>
                  /\ bars'[j].send = bars[i].send
                  /\ bars[i].fin => ~bars'[j].send
                  /\ \A k \in DOMAIN bars : bars'[j].level # bars[k].level
    /\ \A i \in DOMAIN bars :
          ~bars[i].send =>
              /\ ~bars'[i].send
              /\ bars'[i].st # bars[i].st => chan' = chan
    /\ \A i, j \in DOMAIN bars :
          (i # j /\ bars'[i] # bars[i] /\ Len(bars') = Len(bars)) => bars'[j] = bars[j]
    /\ lpc' = "done" => \A i \in DOMAIN bars' : ~BarHasSender(bars'[i])

\* C20: new_line on a finished handle allocates a fresh level and returns a
\* child that holds no sender: it is no live producer and cannot enqueue; a
\* child of an unfinished handle holds its own sender clone and keeps listen
\* from returning until it is itself finished or dropped.
C20_ChildInheritsSenderOfParent == [][C20_Step]_vars

\* C20 witness: listen has returned although the child of a finished handle
\* is alive and was never finished itself: it holds no sender.
C20_Witness ==
    /\ lpc = "done"
    /\ Len(bars) = 2
    /\ bars[1].fin
    /\ bars[2].st = "alive" /\ ~bars[2].fin /\ ~bars[2].send
    /\ bars[2].level = 1

\* C20 witness, second case: the child of an unfinished handle holds a sender
\* after its parent was dropped, and listen is blocked in recv.
C20_ChildKeepsListenerAlive ==
    /\ lpc = "steady" /\ chan = <<>>
    /\ Len(bars) = 2
    /\ bars[1].st = "dropped"
    /\ BarHasSender(bars[2])
    /\ mb.st = "dropped"

====
